---- MODULE Spec2Model ----
(***************************************************************************)
(* A model of schempy: the Block / Palette / Schematic data model of       *)
(* src/schempy/schematic.py and the varint codec of src/schempy/utils.py.  *)
(*                                                                         *)
(* Python strings are sequences of one-character strings, so that          *)
(* Block.__str__ and the parsing in Palette.set_palette are computed.      *)
(* A Python dict is a sequence of <<key, value>> pairs in insertion order  *)
(* (StrDictSet, BlockDictSet), a Compound of the tagged tree is a TLA+ record      *)
(* whose DOMAIN is the set of keys present.  A raised exception is the     *)
(* status of the result record of the call.                                *)
(***************************************************************************)
EXTENDS Integers, Sequences, FiniteSets, TLC

VARIABLES
    self,      \* the Schematic under construction
    ret,       \* the outcome of the last call on the Schematic
    nops,      \* calls made so far
    file,      \* the file system entry written by save_to_file
    loaded,    \* the Schematic returned by from_file
    pal,       \* a stand-alone Palette
    pret,      \* the outcome of the last call on the Palette
    numbers,   \* varint codec: the integers to encode
    stream,    \* varint codec: the byte stream
    decoded,   \* varint codec: what decode_varint returned
    tree,      \* loading: the tagged tree read from a file
    parsed     \* loading: the outcome of Schematic._parse_file

vars == <<self, ret, nops, file, loaded, pal, pret, numbers, stream, decoded, tree, parsed>>

schematicVars == <<self, ret, nops, file, loaded>>
paletteVars == <<pal, pret>>
varintVars == <<numbers, stream, decoded>>
parseVars == <<tree, parsed>>

\* The value of the variables a specification does not use.
Idle == <<>>

(***************************************************************************)
(* Bounds of the model.                                                    *)
(***************************************************************************)
\* Longest sequence of integers given to the codec.
MaxLen == 3

(***************************************************************************)
(* Python integer operators.                                               *)
(***************************************************************************)
RECURSIVE BitAnd(_, _)
BitAnd(a, b) ==
    IF a = 0 \/ b = 0 THEN 0
    ELSE (a % 2) * (b % 2) + 2 * BitAnd(a \div 2, b \div 2)

RECURSIVE BitOr(_, _)
BitOr(a, b) ==
    IF a = 0 THEN b
    ELSE IF b = 0 THEN a
    ELSE (IF a % 2 = 1 \/ b % 2 = 1 THEN 1 ELSE 0) + 2 * BitOr(a \div 2, b \div 2)

ShiftLeft(a, n) == a * 2^n

ShiftRight(a, n) == a \div 2^n

(***************************************************************************)
(* utils.py: the varint codec.                                             *)
(***************************************************************************)
\* byte = value & 0b01111111
low_bits(value) == BitAnd(value, 127)

\* value >>= 7
next_value(value) == ShiftRight(value, 7)

\* byte | 0b10000000
with_continuation(byte) == BitOr(byte, 128)

RECURSIVE encode_varint(_)
encode_varint(value) ==
    IF next_value(value) # 0
    THEN <<with_continuation(low_bits(value))>> \o encode_varint(next_value(value))
    ELSE <<low_bits(value)>>

\* has_next = (byte & 0b10000000) != 0
has_next(byte) == BitAnd(byte, 128) # 0

\* accumulate with a fault: the group is added without its shift.
accumulate_unshifted(current, byte, bit_offset) == BitOr(current, BitAnd(byte, 127))

\* current |= (byte & 0b01111111) << bit_offset
accumulate(current, byte, bit_offset) ==
    BitOr(current, ShiftLeft(BitAnd(byte, 127), bit_offset))

\* The for loop of decode_varint from byte i on, with the loop's locals.
RECURSIVE decode_loop(_, _, _, _, _)
decode_loop(byte_array, i, nums, current, bit_offset) ==
    IF i > Len(byte_array) THEN nums
    ELSE LET byte == byte_array[i]
             cur == accumulate(current, byte, bit_offset)
         IN  IF ~has_next(byte)
             THEN decode_loop(byte_array, i + 1, Append(nums, cur), 0, 0)
             ELSE decode_loop(byte_array, i + 1, nums, cur, bit_offset + 7)

\* decode_varint never raises: bytes left in the accumulator when the stream
\* ends are dropped and the list of the numbers completed so far is returned.
decode_varint(byte_array) ==
    [status |-> "ok", value |-> decode_loop(byte_array, 1, <<>>, 0, 0)]

\* The flat array is a sequence; ravel() of a C-contiguous array is its buffer.
RECURSIVE numpy_array_to_varint_bytearray(_)
numpy_array_to_varint_bytearray(flat_array) ==
    IF flat_array = <<>> THEN <<>>
    ELSE encode_varint(Head(flat_array))
            \o numpy_array_to_varint_bytearray(Tail(flat_array))

(***************************************************************************)
(* Python strings, dicts and lists.                                        *)
(***************************************************************************)
\* The index of the first occurrence of character c in s at or after i, 0 if none.
RECURSIVE Find(_, _, _)
Find(s, c, i) ==
    IF i > Len(s) THEN 0
    ELSE IF s[i] = c THEN i
    ELSE Find(s, c, i + 1)

\* c in s
Contains(s, c) == Find(s, c, 1) # 0

\* s.split(sep), for a one-character separator; i is the first separator's index
RECURSIVE Split(_, _)
SplitAt(s, sep, i) ==
    IF i = 0 THEN <<s>>
    ELSE <<SubSeq(s, 1, i - 1)>> \o Split(SubSeq(s, i + 1, Len(s)), sep)

Split(s, sep) == SplitAt(s, sep, Find(s, sep, 1))

\* sep.join(parts)
RECURSIVE Join(_, _)
Join(parts, sep) ==
    IF parts = <<>> THEN <<>>
    ELSE IF Len(parts) = 1 THEN parts[1]
    ELSE parts[1] \o <<sep>> \o Join(Tail(parts), sep)

\* s[:-1]
DropLastChar(s) == IF s = <<>> THEN <<>> ELSE SubSeq(s, 1, Len(s) - 1)

\* The position of key k in a dict with string keys, 0 if none.
RECURSIVE StrDictFind(_, _, _)
StrDictFind(d, k, i) ==
    IF i > Len(d) THEN 0
    ELSE IF d[i][1] = k THEN i
    ELSE StrDictFind(d, k, i + 1)

\* d[k] = v: a key already present (at position i) keeps its place and its key
\* object.
DictSetAt(d, i, k, v) ==
    IF i = 0 THEN Append(d, <<k, v>>)
    ELSE [d EXCEPT ![i] = <<d[i][1], v>>]

\* d[k] = v, for a dict with string keys
StrDictSet(d, k, v) == DictSetAt(d, StrDictFind(d, k, 1), k, v)

\* set(d.keys()) and set(d.items())
DictKeys(d) == {d[i][1] : i \in 1..Len(d)}
DictItems(d) == {d[i] : i \in 1..Len(d)}

\* An Optional value: None, or a value.
PyNone == [is_none |-> TRUE, value |-> <<>>]
Some(v) == [is_none |-> FALSE, value |-> v]

(***************************************************************************)
(* schematic.py: Block and BlockEntity.                                    *)
(***************************************************************************)
\* Block(id, properties=None); properties is an Optional dict str -> str.
Block(id, properties) == [id |-> id, properties |-> properties]

\* self.properties == other.properties: dicts compare without order.
PropertiesEq(p, q) ==
    /\ p.is_none = q.is_none
    /\ ~p.is_none => DictItems(p.value) = DictItems(q.value)

\* Block.__eq__ (and __hash__, which agrees with it)
BlockEq(a, b) == a.id = b.id /\ PropertiesEq(a.properties, b.properties)

\* The position in a dict with Block keys of a key equal to block (the dict
\* finds it by __hash__ and __eq__), 0 if none.
RECURSIVE BlockDictFind(_, _, _)
BlockDictFind(d, block, i) ==
    IF i > Len(d) THEN 0
    ELSE IF BlockEq(d[i][1], block) THEN i
    ELSE BlockDictFind(d, block, i + 1)

\* block in d
BlockDictHas(d, block) == BlockDictFind(d, block, 1) # 0

\* d[block], for a key that is present
BlockDictGet(d, block) == d[BlockDictFind(d, block, 1)][2]

\* d[block] = v
BlockDictSet(d, block, v) == DictSetAt(d, BlockDictFind(d, block, 1), block, v)

\* f"{key}={value}" for each item, in iteration order
RECURSIVE RenderItems(_)
RenderItems(items) ==
    IF items = <<>> THEN <<>>
    ELSE <<items[1][1] \o <<"=">> \o items[1][2]>> \o RenderItems(Tail(items))

\* Block.__str__
BlockStr(block) ==
    LET properties_str ==
            IF ~block.properties.is_none /\ block.properties.value # <<>>
            THEN Join(RenderItems(block.properties.value), ",")
            ELSE <<>>
    IN  IF properties_str # <<>>
        THEN block.id \o <<"[">> \o properties_str \o <<"]">>
        ELSE block.id

\* BlockEntity(id, x, y, z, properties=None)
BlockEntity(id, x, y, z, properties) ==
    [id |-> id, x |-> x, y |-> y, z |-> z, properties |-> properties]

(***************************************************************************)
(* schematic.py: Palette.                                                  *)
(***************************************************************************)
\* Palette.__init__
NewPalette == [_block_to_index |-> <<>>, _index_to_block |-> <<>>]

\* The properties loop of set_palette over the parts of properties_str.split(',');
\* kv is property_str.split('='), which must unpack into key, value.
RECURSIVE ParseProperties(_, _)
ParseProperty(kv, rest, properties) ==
    IF Len(kv) # 2
    THEN [status |-> "ValueError", value |-> properties]
    ELSE ParseProperties(rest, StrDictSet(properties, kv[1], kv[2]))

ParseProperties(parts, properties) ==
    IF parts = <<>> THEN [status |-> "ok", value |-> properties]
    ELSE ParseProperty(Split(parts[1], "="), Tail(parts), properties)

\* block = Block(id, properties)
BlockWithProperties(id, props) ==
    [status |-> props.status, value |-> Block(id, Some(props.value))]

\* id, properties_str = block_str.split('['), which must unpack into two
ParseBracketed(halves) ==
    IF Len(halves) # 2
    THEN [status |-> "ValueError", value |-> Block(<<>>, PyNone)]
    ELSE BlockWithProperties(halves[1],
                             ParseProperties(Split(DropLastChar(halves[2]), ","), <<>>))

\* The body of set_palette that parses one canonical string into a Block.
ParseBlock(block_str) ==
    IF Contains(block_str, "[")
    THEN ParseBracketed(Split(block_str, "["))
    ELSE [status |-> "ok", value |-> Block(block_str, PyNone)]

\* self._block_to_index[block] = index; self._index_to_block.append(block)
install(palette, block, index) ==
    [_block_to_index |-> BlockDictSet(palette._block_to_index, block, index),
     _index_to_block |-> Append(palette._index_to_block, block)]

\* Palette.set_palette: the loop over palette.items(); a string that does not
\* parse raises out of the loop and leaves the entries installed so far.
RECURSIVE set_palette(_, _)
set_palette_entry(palette, parsed_block, index, rest) ==
    IF parsed_block.status # "ok"
    THEN [status |-> parsed_block.status, palette |-> palette]
    ELSE set_palette(install(palette, parsed_block.value, index), rest)

set_palette(palette, entries) ==
    IF entries = <<>> THEN [status |-> "ok", palette |-> palette]
    ELSE set_palette_entry(palette, ParseBlock(entries[1][1]), entries[1][2],
                           Tail(entries))

\* Palette.get_palette: a dict comprehension keyed by str(block)
RECURSIVE get_palette_loop(_, _)
get_palette_loop(items, out) ==
    IF items = <<>> THEN out
    ELSE get_palette_loop(Tail(items),
                          StrDictSet(out, BlockStr(items[1][1]), items[1][2]))

get_palette(palette) == get_palette_loop(palette._block_to_index, <<>>)

\* Palette.get_id
get_id(palette, block) ==
    IF ~BlockDictHas(palette._block_to_index, block)
    THEN [palette |-> install(palette, block, Len(palette._index_to_block)),
          value |-> Len(palette._index_to_block)]
    ELSE [palette |-> palette,
          value |-> BlockDictGet(palette._block_to_index, block)]

\* list[index]: Python counts a negative index from the end of the list.
list_index(list, index) ==
    IF 0 <= index /\ index < Len(list)
    THEN [status |-> "ok", value |-> list[index + 1]]
    ELSE IF -Len(list) <= index /\ index < 0
    THEN [status |-> "ok", value |-> list[Len(list) + index + 1]]
    ELSE [status |-> "IndexError", value |-> Block(<<>>, PyNone)]

\* Palette.get_block
palette_get_block(palette, index) == list_index(palette._index_to_block, index)

(***************************************************************************)
(* The dense 3-D buffer (numpy.ndarray): a shape and a row-major flat      *)
(* sequence.                                                               *)
(***************************************************************************)
Size(shape) == shape[1] * shape[2] * shape[3]

\* np.zeros(shape, dtype=int)
Zeros(shape) == [shape |-> shape, flat |-> [i \in 1..Size(shape) |-> 0]]

\* Whether array[i, j, k] is an element: each index is checked against its own
\* axis, and a negative index counts from the end of the axis.
IndexOk(array, i, j, k) ==
    /\ -array.shape[1] <= i /\ i < array.shape[1]
    /\ -array.shape[2] <= j /\ j < array.shape[2]
    /\ -array.shape[3] <= k /\ k < array.shape[3]

Wrap(i, n) == IF i < 0 THEN i + n ELSE i

\* The position of array[i, j, k] in the flat sequence.
FlatIndex(array, i, j, k) ==
    (Wrap(i, array.shape[1]) * array.shape[2] + Wrap(j, array.shape[2])) * array.shape[3]
        + Wrap(k, array.shape[3]) + 1

\* np.array(decoded_numbers).reshape(shape)
Reshape(decoded_numbers, shape) ==
    IF Len(decoded_numbers) = Size(shape)
    THEN [status |-> "ok", value |-> [shape |-> shape, flat |-> decoded_numbers]]
    ELSE [status |-> "ValueError: cannot reshape", value |-> Zeros(<<0, 0, 0>>)]

\* utils.varint_bytearray_to_numpy_array
varint_bytearray_to_numpy_array(byte_array, shape) ==
    Reshape(decode_varint(byte_array).value, shape)

\* utils.to_unsigned_short: the value itself when it is in range
to_unsigned_short_ok(value) == 0 <= value /\ value <= 65535

\* utils.from_unsigned_short: value & 0xFFFF, also of a negative (two's complement) value
from_unsigned_short(value) == value % 65536

(***************************************************************************)
(* schematic.py: Schematic.                                                *)
(***************************************************************************)
\* schempy.constants
MINECRAFT_AIR == <<"m", "i", "n", "e", "c", "r", "a", "f", "t", ":", "a", "i", "r">>
DATA_VERSION == 3700

\* Schematic.__init__, for dimensions to_unsigned_short accepts.  The record's
\* DOMAIN is the set of attributes the object has.  (date, the time of
\* construction, is left out.)
NewSchematic(width, height, length) ==
    [_width |-> width,
     _height |-> height,
     _length |-> length,
     offset |-> <<0, 0, 0>>,
     data_version |-> DATA_VERSION,
     name |-> <<"M", "y", " ", "S", "c", "h", "e", "m", "a", "t", "i", "c">>,
     author |-> <<"S", "c", "h", "e", "m", "P", "y">>,
     required_mods |-> <<>>,
     metadata |-> <<>>,
     _block_palette |-> get_id(NewPalette, Block(MINECRAFT_AIR, PyNone)).palette,
     _block_data |-> Zeros(<<length, height, width>>),
     _block_entities |-> <<>>,
     _biome_palette |-> NewPalette,
     _biome_data |-> Zeros(<<length, height, width>>),
     _entities |-> <<>>]

\* _check_coordinates with a fault: the upper bounds are inclusive.
coordinates_ok_inclusive(s, x, y, z) ==
    0 <= x /\ x <= s._width /\ 0 <= y /\ y <= s._height /\ 0 <= z /\ z <= s._length

\* Schematic._check_coordinates: the condition under which it does not raise
coordinates_ok(s, x, y, z) ==
    0 <= x /\ x < s._width /\ 0 <= y /\ y < s._height /\ 0 <= z /\ z < s._length

NoBlock == Block(<<>>, PyNone)

\* return self._block_palette.get_block(...)
Returned(r, s) == [status |-> r.status, self |-> s, value |-> r.value]

\* Schematic.get_block
get_block(s, x, y, z) ==
    IF ~coordinates_ok(s, x, y, z)
    THEN [status |-> "ValueError: Coordinates out of range.", self |-> s, value |-> NoBlock]
    ELSE IF ~IndexOk(s._block_data, x, y, z)
    THEN [status |-> "IndexError", self |-> s, value |-> NoBlock]
    ELSE Returned(palette_get_block(s._block_palette,
                                    s._block_data.flat[FlatIndex(s._block_data, x, y, z)]),
                  s)

\* self._block_data[x, y, z] = id, where id is what get_id returned: get_id
\* runs before the element is assigned, so the block is in the palette also
\* when the assignment raises.
assign_block(s, x, y, z, id) ==
    IF ~IndexOk(s._block_data, x, y, z)
    THEN [status |-> "IndexError", self |-> [s EXCEPT !._block_palette = id.palette]]
    ELSE [status |-> "ok",
          self |-> [s EXCEPT !._block_palette = id.palette,
                             !._block_data.flat[FlatIndex(s._block_data, x, y, z)]
                                  = id.value]]

\* Schematic.set_block
set_block(s, x, y, z, block) ==
    IF ~coordinates_ok(s, x, y, z)
    THEN [status |-> "ValueError: Coordinates out of range.", self |-> s]
    ELSE assign_block(s, x, y, z, get_id(s._block_palette, block))

\* Schematic.add_block_entity
add_block_entity(s, block_entity) ==
    IF ~coordinates_ok(s, block_entity.x, block_entity.y, block_entity.z)
    THEN [status |-> "ValueError: Coordinates out of range.", self |-> s]
    ELSE [status |-> "ok",
          self |-> [s EXCEPT !._block_entities = Append(@, block_entity)]]

(***************************************************************************)
(* schematic.py: building the tagged tree.  The schema classes SpongeV2    *)
(* and SpongeV3 type the tree's fields and keep its keys and values.       *)
(***************************************************************************)
\* Schematic._prepare_metadata (without Date): update() lets the three keys
\* win over the entries of self.metadata, a dict that is a function here.
prepare_metadata(s) ==
    [Name |-> s.name, Author |-> s.author, RequiredMods |-> s.required_mods] @@ s.metadata

\* One element of the list comprehension of _save_to_file_v3
entity_v3(entity, rest) ==
    [status |-> rest.status,
     value |-> <<[Pos |-> <<entity.x, entity.y, entity.z>>,
                  Id |-> entity.id,
                  Data |-> entity.properties.value]>> \o rest.value]

\* The list comprehension of _save_to_file_v3 over self._block_entities:
\* entity.properties.items() raises when properties is None.
RECURSIVE block_entities_v3(_)
block_entities_v3(entities) ==
    IF entities = <<>> THEN [status |-> "ok", value |-> <<>>]
    ELSE IF entities[1].properties.is_none
    THEN [status |-> "AttributeError", value |-> <<>>]
    ELSE entity_v3(entities[1], block_entities_v3(Tail(entities)))

\* The 'Schematic' compound of _save_to_file_v3
schematic_v3(s, block_entities) ==
    [Version |-> 3,
     DataVersion |-> s.data_version,
     Metadata |-> prepare_metadata(s),
     Width |-> s._width,
     Height |-> s._height,
     Length |-> s._length,
     Offset |-> s.offset,
     Blocks |-> [Palette |-> get_palette(s._block_palette),
                 Data |-> numpy_array_to_varint_bytearray(s._block_data.flat),
                 BlockEntities |-> block_entities]]

\* The optional fields of _save_to_file_v3 (entities is always empty)
with_biomes_v3(s, schematic, biome_palette) ==
    IF Len(biome_palette) > 0
    THEN [Schematic |->
            schematic @@ [Biomes |-> [Palette |-> biome_palette,
                                      Data |-> numpy_array_to_varint_bytearray(
                                                    s._biome_data.flat)]]]
    ELSE [Schematic |-> schematic]

\* _save_to_file_v3 once the block entities are converted
tree_v3(s, block_entities) ==
    IF block_entities.status # "ok"
    THEN [status |-> block_entities.status, value |-> <<>>]
    ELSE [status |-> "ok",
          value |-> <<with_biomes_v3(s, schematic_v3(s, block_entities.value),
                                     get_palette(s._biome_palette))>>]

\* Schematic._save_to_file_v3
save_to_file_v3(s) == tree_v3(s, block_entities_v3(s._block_entities))

\* Schematic._save_to_file_v2: the keyword arguments are evaluated in order, and
\* reading an attribute the object does not have raises AttributeError.
save_to_file_v2(s) ==
    IF \E a \in {"_data_version", "_metadata", "_offset"} : a \notin DOMAIN s
    THEN [status |-> "AttributeError", value |-> <<>>]
    ELSE [status |-> "ok",
          value |-> <<[Version |-> 2,
                       DataVersion |-> s._data_version,
                       Metadata |-> s._metadata,
                       Width |-> s._width,
                       Height |-> s._height,
                       Length |-> s._length,
                       Offset |-> s._offset,
                       PaletteMax |-> Len(get_palette(s._block_palette)),
                       Palette |-> get_palette(s._block_palette),
                       BlockData |-> s._block_data.flat,
                       BlockEntities |-> <<>>,
                       Entities |-> <<>>,
                       BiomePaletteMax |-> Len(get_palette(s._block_palette)),
                       BiomePalette |-> get_palette(s._block_palette),
                       BiomeData |-> s._biome_data.flat]>>]

\* Schematic._save_to_file_v1
save_to_file_v1(s) == [status |-> "NotImplementedError", value |-> <<>>]

SCHEM_SUFFIX == <<".", "s", "c", "h", "e", "m">>

\* Schematic.save_to_file: value is <<tree>> when the file is written, <<>> when
\* the call raises before nbtlib.File(data).save.
save_to_file(s, file_path, version) ==
    IF ~file_path.parent_exists
    THEN [status |-> "FileNotFoundError", value |-> <<>>]
    ELSE IF file_path.suffix # SCHEM_SUFFIX
    THEN [status |-> "ValueError: Invalid file extension.", value |-> <<>>]
    ELSE IF version = 1 THEN save_to_file_v1(s)
    ELSE IF version = 2 THEN save_to_file_v2(s)
    ELSE IF version = 3 THEN save_to_file_v3(s)
    ELSE [status |-> "ValueError: Invalid schematic version.", value |-> <<>>]

(***************************************************************************)
(* schematic.py: parsing the tagged tree.                                  *)
(***************************************************************************)
Failed(status, dispatch) == [status |-> status, dispatch |-> dispatch, value |-> <<>>]

\* Schematic._parse_file_v1
parse_file_v1(t) == Failed("NotImplementedError", "v1")

RequiredFields == {"Width", "Height", "Length", "Offset", "DataVersion"}

\* The try block of _parse_file_v2 and _parse_file_v3: the Schematic of the
\* tree's dimensions, with its offset and data version.
required_fields(data) ==
    [[NewSchematic(from_unsigned_short(data.Width),
                   from_unsigned_short(data.Height),
                   from_unsigned_short(data.Length))
        EXCEPT !.offset = data.Offset] EXCEPT !.data_version = data.DataVersion]

\* if 'Metadata' in data: schematic.metadata = data['Metadata']
with_metadata(schematic, data) ==
    IF "Metadata" \in DOMAIN data
    THEN [schematic EXCEPT !.metadata = data.Metadata]
    ELSE schematic

\* shape = (schematic._length, schematic._height, schematic._width)
Shape(schematic) == <<schematic._length, schematic._height, schematic._width>>

\* The two assignments of a layer, given the outcomes p of set_palette and a of
\* varint_bytearray_to_numpy_array; the palette set is the block palette for
\* Blocks and for Biomes.
layer_parsed(schematic, p, a, data_field) ==
    IF p.status # "ok" THEN [status |-> p.status, value |-> schematic]
    ELSE IF a.status # "ok" THEN [status |-> a.status, value |-> schematic]
    ELSE [status |-> "ok",
          value |-> [[schematic EXCEPT !._block_palette = p.palette]
                         EXCEPT ![data_field] = a.value]]

\* if 'Blocks' in data, of _parse_file_v3 (a Blocks compound of the model always
\* has its Palette and its Data)
parse_blocks_v3(schematic, data) ==
    IF "Blocks" \notin DOMAIN data THEN [status |-> "ok", value |-> schematic]
    ELSE layer_parsed(schematic,
                      set_palette(schematic._block_palette, data.Blocks.Palette),
                      varint_bytearray_to_numpy_array(data.Blocks.Data, Shape(schematic)),
                      "_block_data")

\* if 'Biomes' in data, of _parse_file_v3
parse_biomes_v3(schematic, data) ==
    IF "Biomes" \notin DOMAIN data THEN [status |-> "ok", value |-> schematic]
    ELSE layer_parsed(schematic,
                      set_palette(schematic._block_palette, data.Biomes.Palette),
                      varint_bytearray_to_numpy_array(data.Biomes.Data, Shape(schematic)),
                      "_biome_data")

\* if 'Entities' in data: schematic._entities = data['Entities']
with_entities(schematic, data) ==
    IF "Entities" \in DOMAIN data
    THEN [schematic EXCEPT !._entities = data.Entities]
    ELSE schematic

\* _parse_file_v3 from 'Biomes' on; s1 is the outcome of the Blocks step
parse_after_blocks_v3(s1, data) ==
    IF s1.status # "ok" THEN s1 ELSE parse_biomes_v3(s1.value, data)

\* if 'Entities' in data, of _parse_file_v3; s2 is the outcome of the Biomes step
parse_after_biomes_v3(s2, data) ==
    IF s2.status # "ok" THEN s2
    ELSE [status |-> "ok", value |-> with_entities(s2.value, data)]

\* return schematic, or the exception of a step
parse_result(s, dispatch) ==
    IF s.status # "ok" THEN Failed(s.status, dispatch)
    ELSE [status |-> "ok", dispatch |-> dispatch, value |-> <<s.value>>]

\* _parse_file_v3 on data = SpongeV3(file)['Schematic']
parse_schematic_v3(data) ==
    IF ~(RequiredFields \subseteq DOMAIN data)
    THEN Failed("ValueError: Invalid schematic file.", "v3")
    ELSE parse_result(
            parse_after_biomes_v3(
                parse_after_blocks_v3(
                    parse_blocks_v3(with_metadata(required_fields(data), data), data),
                    data),
                data),
            "v3")

\* Schematic._parse_file_v3
parse_file_v3(t) ==
    IF "Schematic" \notin DOMAIN t THEN Failed("KeyError", "v3")
    ELSE parse_schematic_v3(t.Schematic)

\* The assignments of the optional fields of _parse_file_v2, given the
\* outcomes of set_palette and of the two decodings
optional_parsed_v2(schematic, p, b, m) ==
    IF p.status # "ok" THEN [status |-> p.status, value |-> schematic]
    ELSE IF b.status # "ok" THEN [status |-> b.status, value |-> schematic]
    ELSE IF m.status # "ok" THEN [status |-> m.status, value |-> schematic]
    ELSE [status |-> "ok",
          value |-> [schematic EXCEPT !._block_palette = p.palette,
                                      !._block_data = b.value,
                                      !._biome_data = m.value]]

\* The optional fields of _parse_file_v2
parse_optional_v2(schematic, data) ==
    optional_parsed_v2(
        schematic,
        IF "Palette" \in DOMAIN data
        THEN set_palette(schematic._block_palette, data.Palette)
        ELSE [status |-> "ok", palette |-> schematic._block_palette],
        IF "BlockData" \in DOMAIN data
        THEN varint_bytearray_to_numpy_array(data.BlockData, Shape(schematic))
        ELSE [status |-> "ok", value |-> schematic._block_data],
        IF "BiomeData" \in DOMAIN data
        THEN varint_bytearray_to_numpy_array(data.BiomeData, Shape(schematic))
        ELSE [status |-> "ok", value |-> schematic._biome_data])

\* Schematic._parse_file_v2
parse_file_v2(t) ==
    IF ~(RequiredFields \subseteq DOMAIN t)
    THEN Failed("ValueError: Invalid schematic file.", "v2")
    ELSE parse_result(parse_optional_v2(with_metadata(required_fields(t), t), t), "v2")

\* version = file.get('Version')
top_version(t) == IF "Version" \in DOMAIN t THEN <<t.Version>> ELSE <<>>

\* schematic_data = file.get('Schematic'); version = schematic_data.get('Version')
nested_version(t) ==
    IF "Schematic" \in DOMAIN t /\ "Version" \in DOMAIN t.Schematic
    THEN <<t.Schematic.Version>>
    ELSE <<>>

\* detect_version with a fault: the nested field is read first.
detect_version_nested_first(t) ==
    IF nested_version(t) = <<>> THEN top_version(t) ELSE nested_version(t)

\* The version _parse_file finds: <<>> for None, else <<version>>.
detect_version(t) ==
    IF top_version(t) = <<>> THEN nested_version(t) ELSE top_version(t)

\* The dispatch of _parse_file on the version found
dispatch_version(version, t) ==
    IF version = <<>>
    THEN Failed("ValueError: Invalid schematic file: Version not found.", "none")
    ELSE IF version[1] = 1 THEN parse_file_v1(t)
    ELSE IF version[1] = 2 THEN parse_file_v2(t)
    ELSE IF version[1] = 3 THEN parse_file_v3(t)
    ELSE Failed("ValueError: Invalid schematic version.", "none")

\* Schematic._parse_file
parse_file(t) == dispatch_version(detect_version(t), t)

\* file_path.exists(): the file system holds at most the one file a save wrote
path_exists(f, file_path) ==
    file_path.parent_exists /\ file_path.suffix = SCHEM_SUFFIX /\ f.exists

\* Schematic.from_file
from_file(f, file_path) ==
    IF ~path_exists(f, file_path) THEN Failed("FileNotFoundError", "none")
    ELSE IF file_path.suffix # SCHEM_SUFFIX
    THEN Failed("ValueError: Invalid file extension.", "none")
    ELSE parse_file(f.content[1])

(***************************************************************************)
(* Inputs.                                                                 *)
(***************************************************************************)
\* Largest width, height and length of a Schematic; coordinates are drawn
\* from -1..MaxDim.
MaxDim == 2
\* Calls made on a Schematic in one run of Spec.
MaxOps == 2
\* set_block and add_block_entity calls before a Schematic is saved (SpecFile).
MaxBuild == 2
\* Largest length of the index -> value sequence of a stand-alone Palette,
\* and largest index given to it.
MaxPalette == 3

Air == Block(MINECRAFT_AIR, PyNone)
Stone == Block(<<"s">>, PyNone)
Stairs == Block(<<"t">>, Some(<< <<<<"h">>, <<"b">>>>, <<<<"f">>, <<"n">>>> >>))
BlockValues == {Air, Stone, Stairs}

Dims == 0..MaxDim
Coords == -1..MaxDim

\* Block entities at (x, y, z): one with a properties dict, one with the
\* default properties=None.
EntitiesAt(x, y, z) ==
    {BlockEntity(<<"c">>, x, y, z, Some(<< <<<<"k">>, <<"v">>>> >>)),
     BlockEntity(<<"c">>, x, y, z, PyNone)}

Paths ==
    {[parent_exists |-> TRUE, suffix |-> SCHEM_SUFFIX],
     [parent_exists |-> TRUE, suffix |-> <<".", "n", "b", "t">>],
     [parent_exists |-> FALSE, suffix |-> SCHEM_SUFFIX]}

Versions == 0..4

NoFile == [exists |-> FALSE, content |-> <<>>]
NotLoaded == [status |-> "none", value |-> <<>>]

(***************************************************************************)
(* Spec: a Schematic is constructed and then read and written through      *)
(* get_block, set_block and add_block_entity at any coordinates.           *)
(* SpecFile: a Schematic is constructed, filled at coordinates within its  *)
(* bounds, saved and loaded back.                                          *)
(***************************************************************************)
InitSchematic ==
    /\ \E width \in Dims, height \in Dims, length \in Dims :
            /\ to_unsigned_short_ok(width)
            /\ to_unsigned_short_ok(height)
            /\ to_unsigned_short_ok(length)
            /\ self = NewSchematic(width, height, length)
    /\ ret = [op |-> "init", status |-> "ok"]
    /\ nops = 0
    /\ file = NoFile
    /\ loaded = NotLoaded
    /\ pal = Idle /\ pret = Idle
    /\ numbers = Idle /\ stream = Idle /\ decoded = Idle
    /\ tree = Idle /\ parsed = Idle

\* The outcome r of a call on the Schematic, recorded with its arguments.
Called(op, x, y, z, block, r, value) ==
    /\ self' = r.self
    /\ ret' = [op |-> op, x |-> x, y |-> y, z |-> z, block |-> block,
               status |-> r.status, value |-> value]
    /\ nops' = nops + 1
    /\ UNCHANGED <<file, loaded, paletteVars, varintVars, parseVars>>

SetBlock(x, y, z, block) ==
    Called("set_block", x, y, z, block, set_block(self, x, y, z, block), NoBlock)

GetBlock(x, y, z) ==
    Called("get_block", x, y, z, NoBlock, get_block(self, x, y, z),
           get_block(self, x, y, z).value)

AddBlockEntity(block_entity) ==
    Called("add_block_entity", block_entity.x, block_entity.y, block_entity.z, NoBlock,
           add_block_entity(self, block_entity), NoBlock)

\* nbtlib.File(data).save(file_path): r.value is <<tree>>, or <<>> when
\* save_to_file raised before it
Saved(file_path, version, r) ==
    /\ file' = IF r.value # <<>> THEN [exists |-> TRUE, content |-> r.value] ELSE file
    /\ ret' = [op |-> "save_to_file", file_path |-> file_path, version |-> version,
               status |-> r.status, written |-> r.value # <<>>]
    /\ UNCHANGED <<self, nops, loaded, paletteVars, varintVars, parseVars>>

SaveToFile(file_path, version) ==
    Saved(file_path, version, save_to_file(self, file_path, version))

Loaded(file_path, r) ==
    /\ loaded' = IF r.value # <<>> THEN [status |-> "ok", value |-> r.value] ELSE loaded
    /\ ret' = [op |-> "from_file", file_path |-> file_path,
               status |-> r.status, dispatch |-> r.dispatch]
    /\ UNCHANGED <<self, nops, file, paletteVars, varintVars, parseVars>>

FromFile(file_path) == Loaded(file_path, from_file(file, file_path))

Next ==
    \/ /\ nops < MaxOps
       /\ \E x \in Coords, y \in Coords, z \in Coords, block \in BlockValues :
                SetBlock(x, y, z, block)
    \/ /\ nops < MaxOps
       /\ \E x \in Coords, y \in Coords, z \in Coords : GetBlock(x, y, z)
    \/ /\ nops < MaxOps
       /\ \E x \in Coords, y \in Coords, z \in Coords :
                \E block_entity \in EntitiesAt(x, y, z) : AddBlockEntity(block_entity)

Spec == InitSchematic /\ [][Next]_vars

\* The coordinates within the bounds of the Schematic.
InBounds(x, y, z) ==
    /\ x \in 0..(self._width - 1)
    /\ y \in 0..(self._height - 1)
    /\ z \in 0..(self._length - 1)

NextFile ==
    \/ /\ ~file.exists /\ nops < MaxBuild
       /\ \E x \in Dims, y \in Dims, z \in Dims, block \in BlockValues :
                InBounds(x, y, z) /\ SetBlock(x, y, z, block)
    \/ /\ ~file.exists /\ nops < MaxBuild
       /\ \E x \in Dims, y \in Dims, z \in Dims :
                /\ InBounds(x, y, z)
                /\ \E block_entity \in EntitiesAt(x, y, z) : AddBlockEntity(block_entity)
    \/ /\ ~file.exists
       /\ \E file_path \in Paths, version \in Versions : SaveToFile(file_path, version)
    \/ /\ loaded = NotLoaded
       /\ \E file_path \in Paths : FromFile(file_path)

SpecFile == InitSchematic /\ [][NextFile]_vars

(***************************************************************************)
(* Claims about a Schematic.                                               *)
(***************************************************************************)
OutOfBoundsError == "ValueError: Coordinates out of range."

\* C2: after set_block(x, y, z, b) at a coordinate with 0 <= x < width,
\* 0 <= y < height, 0 <= z < length, the call has succeeded and get_block(x, y, z)
\* returns a block equal to b, whatever the dimensions of the Schematic.
C2_SetThenGet ==
    (ret.op = "set_block" /\ InBounds(ret.x, ret.y, ret.z)) =>
        /\ ret.status = "ok"
        /\ get_block(self, ret.x, ret.y, ret.z).status = "ok"
        /\ BlockEq(get_block(self, ret.x, ret.y, ret.z).value, ret.block)

\* C4: a call of get_block, set_block or add_block_entity at a coordinate that
\* is not within the bounds fails with the out-of-bounds error, returns no
\* value and leaves the Schematic as it was.
C4_OutOfBoundsRejected ==
    [][(nops' = nops + 1 /\ ~InBounds(ret'.x, ret'.y, ret'.z)) =>
            /\ ret'.status = OutOfBoundsError
            /\ ret'.value = NoBlock
            /\ self' = self]_vars

\* C4's case: after a set_block that changed the grid of a 2 x 1 x 2 Schematic,
\* add_block_entity has been refused at x = width, z = -1.
C4_Witness ==
    /\ nops = 2
    /\ ret.op = "add_block_entity"
    /\ ret.status = OutOfBoundsError
    /\ ret.x = self._width /\ ret.y = 0 /\ ret.z = -1
    /\ self._width = 2 /\ self._height = 1 /\ self._length = 2
    /\ self._block_data.flat # Zeros(self._block_data.shape).flat

\* C1: a Schematic loaded from the file a version-3 save wrote has the block
\* grid, the block palette's canonical strings, the offset and the block-entity
\* list of the Schematic that was saved.
C1_RoundTripV3 ==
    loaded.status = "ok" =>
        /\ loaded.value[1]._block_data = self._block_data
        /\ DictKeys(get_palette(loaded.value[1]._block_palette))
                = DictKeys(get_palette(self._block_palette))
        /\ loaded.value[1].offset = self.offset
        /\ loaded.value[1]._block_entities = self._block_entities

\* C9: a save to a path with an existing parent directory and the schematic
\* extension writes a tree of Version 2 for version 2 and of Version 3 for
\* version 3, and for version 1 fails as unsupported and writes no file.
C9_SaveDispatch ==
    (/\ ret.op = "save_to_file"
     /\ ret.file_path.parent_exists
     /\ ret.file_path.suffix = SCHEM_SUFFIX) =>
        /\ ret.version \in {2, 3} =>
                /\ ret.status = "ok"
                /\ file.exists
                /\ \/ ret.version = 2 /\ file.content[1].Version = 2
                   \/ ret.version = 3 /\ file.content[1].Schematic.Version = 3
        /\ ret.version = 1 =>
                /\ ret.status = "NotImplementedError"
                /\ ~ret.written

(***************************************************************************)
(* SpecPalette: a Palette, empty or seeded with air as Schematic.__init__  *)
(* seeds the block palette, under get_id, set_palette and get_block.       *)
(***************************************************************************)
PaletteIndexes == 0..MaxPalette

\* The dicts given to set_palette: up to two canonical strings of distinct
\* blocks, each with an index.
PaletteInputs ==
    {<<>>}
    \cup {<< <<BlockStr(b), i>> >> : b \in BlockValues, i \in PaletteIndexes}
    \cup {<< <<BlockStr(b1), i1>>, <<BlockStr(b2), i2>> >> :
            b1 \in {Stone}, i1 \in PaletteIndexes, b2 \in {Air, Stairs}, i2 \in PaletteIndexes}

InitPalette ==
    /\ pal \in {NewPalette, get_id(NewPalette, Air).palette}
    /\ pret = [op |-> "init", status |-> "ok"]
    /\ self = Idle /\ ret = Idle /\ nops = Idle /\ file = Idle /\ loaded = Idle
    /\ numbers = Idle /\ stream = Idle /\ decoded = Idle
    /\ tree = Idle /\ parsed = Idle

PaletteGetId(block) ==
    LET r == get_id(pal, block)
    IN  /\ pal' = r.palette
        /\ pret' = [op |-> "get_id", status |-> "ok", block |-> block, index |-> r.value]
        /\ UNCHANGED <<schematicVars, varintVars, parseVars>>

PaletteSetPalette(entries) ==
    LET r == set_palette(pal, entries)
    IN  /\ pal' = r.palette
        /\ pret' = [op |-> "set_palette", status |-> r.status]
        /\ UNCHANGED <<schematicVars, varintVars, parseVars>>

PaletteGetBlock(index) ==
    LET r == palette_get_block(pal, index)
    IN  /\ pal' = pal
        /\ pret' = [op |-> "get_block", status |-> r.status, block |-> r.value,
                    index |-> index]
        /\ UNCHANGED <<schematicVars, varintVars, parseVars>>

NextPalette ==
    \/ /\ Len(pal._index_to_block) < MaxPalette
       /\ \E block \in BlockValues : PaletteGetId(block)
    \/ /\ Len(pal._index_to_block) < MaxPalette
       /\ \E entries \in PaletteInputs :
                Len(pal._index_to_block) + Len(entries) <= MaxPalette
                    /\ PaletteSetPalette(entries)
    \/ \E index \in (-MaxPalette - 1)..(MaxPalette + 1) : PaletteGetBlock(index)

SpecPalette == InitPalette /\ [][NextPalette]_vars

\* C3: for every value v of the value -> index table, get(index_of(v)) is v.
C3_PaletteConsistent ==
    \A i \in 1..Len(pal._block_to_index) :
        LET v == pal._block_to_index[i][1]
            index == pal._block_to_index[i][2]
        IN  /\ palette_get_block(pal, index).status = "ok"
            /\ BlockEq(palette_get_block(pal, index).value, v)

\* C7: get(index) returns the value at index when 0 <= index < n and fails
\* with the index error for every other index.
C7_GetBoundsChecked ==
    pret.op = "get_block" =>
        IF 0 <= pret.index /\ pret.index < Len(pal._index_to_block)
        THEN pret.status = "ok" /\ pret.block = pal._index_to_block[pret.index + 1]
        ELSE pret.status = "IndexError"

(***************************************************************************)
(* SpecVarint: a sequence of non-negative integers is encoded, the stream  *)
(* may lose its last byte, and the stream is decoded.                      *)
(***************************************************************************)
VarintValues == {0, 1, 127, 128, 300, 65535, 2147483647}

\* The sequences over S of length at most n.
RECURSIVE SeqsUpTo(_, _)
SeqsUpTo(S, n) ==
    IF n = 0 THEN {<<>>}
    ELSE SeqsUpTo(S, n - 1) \cup {Append(q, v) : q \in {r \in SeqsUpTo(S, n - 1) : Len(r) = n - 1}, v \in S}

InitVarint ==
    /\ numbers \in SeqsUpTo(VarintValues, MaxLen)
    /\ stream = [state |-> "none", bytes |-> <<>>]
    /\ decoded = [status |-> "none", value |-> <<>>]
    /\ self = Idle /\ ret = Idle /\ nops = Idle /\ file = Idle /\ loaded = Idle
    /\ pal = Idle /\ pret = Idle
    /\ tree = Idle /\ parsed = Idle

Encode ==
    /\ stream.state = "none"
    /\ stream' = [state |-> "encoded", bytes |-> numpy_array_to_varint_bytearray(numbers)]
    /\ UNCHANGED <<numbers, decoded, schematicVars, paletteVars, parseVars>>

\* The stream loses its last byte before it is decoded.
DropLastByte ==
    /\ stream.state = "encoded" /\ stream.bytes # <<>> /\ decoded.status = "none"
    /\ stream' = [state |-> "truncated",
                  bytes |-> SubSeq(stream.bytes, 1, Len(stream.bytes) - 1)]
    /\ UNCHANGED <<numbers, decoded, schematicVars, paletteVars, parseVars>>

Decode ==
    /\ stream.state # "none" /\ decoded.status = "none"
    /\ decoded' = decode_varint(stream.bytes)
    /\ UNCHANGED <<numbers, stream, schematicVars, paletteVars, parseVars>>

NextVarint == Encode \/ DropLastByte \/ Decode

SpecVarint == InitVarint /\ [][NextVarint]_vars

\* C5: decoding the concatenation of the varint encodings of a sequence of
\* non-negative integers yields the sequence.
C5_VarintRoundTrip ==
    (stream.state = "encoded" /\ decoded.status # "none") =>
        decoded.status = "ok" /\ decoded.value = numbers

\* C5's case: a sequence of MaxLen integers with a duplicate and with
\* multi-byte values has been encoded and decoded.
C5_Witness ==
    /\ stream.state = "encoded" /\ decoded.status = "ok"
    /\ Len(numbers) = MaxLen
    /\ numbers[1] = 2147483647 /\ numbers[2] = 300 /\ numbers[3] = 300
    /\ Len(stream.bytes) = 9

\* C6: decoding a non-empty stream whose last byte has its continuation bit
\* set fails with TruncatedVarint.
C6_TruncatedRejected ==
    (/\ decoded.status # "none"
     /\ stream.bytes # <<>>
     /\ stream.bytes[Len(stream.bytes)] >= 128) =>
        decoded.status = "TruncatedVarint"

(***************************************************************************)
(* SpecParse: Schematic._parse_file on a tagged tree read from a file.     *)
(***************************************************************************)
\* Version values of a tree: the three known versions, and an unknown one.
TreeVersions == 1..4

\* <<Width, Height, Length>> of the trees.
TreeDims == {<<1, 1, 1>>, <<2, 1, 1>>}

\* Palettes of a tree: in index order, and with indices out of order.
TreePalettes ==
    {<< <<BlockStr(Air), 0>>, <<BlockStr(Stone), 1>> >>,
     << <<BlockStr(Stairs), 2>>, <<BlockStr(Air), 0>> >>}

\* A Blocks or Biomes compound for dimensions d: a palette and the varint
\* stream of one index per cell.
TreeLayers(d) ==
    {[Palette |-> p, Data |-> numpy_array_to_varint_bytearray([i \in 1..(d[1] * d[2] * d[3]) |-> v])] :
        p \in TreePalettes, v \in {1}}

\* The fields both layouts require.
TreeRequired(d) ==
    [Width |-> d[1], Height |-> d[2], Length |-> d[3], Offset |-> <<1, -2, 3>>,
     DataVersion |-> DATA_VERSION]

\* The nested compounds of the version-3 layout, with and without a Version,
\* Blocks and Biomes.
NestedCompounds ==
    {v @@ TreeRequired(d) @@ blocks @@ biomes :
        v \in {<<>>} \cup {[Version |-> n] : n \in TreeVersions},
        d \in TreeDims,
        blocks \in {<<>>} \cup {[Blocks |-> b] : b \in UNION {TreeLayers(e) : e \in TreeDims}},
        biomes \in {<<>>} \cup {[Biomes |-> b] : b \in TreeLayers(<<1, 1, 1>>)}}

\* The top-level fields of the version-2 layout.
FlatCompounds ==
    {<<>>}
    \cup {TreeRequired(<<1, 1, 1>>) @@ [Palette |-> l.Palette, BlockData |-> l.Data] :
            l \in TreeLayers(<<1, 1, 1>>)}

Trees ==
    {v @@ flat @@ nested :
        v \in {<<>>} \cup {[Version |-> n] : n \in TreeVersions},
        flat \in FlatCompounds,
        nested \in {<<>>} \cup {[Schematic |-> c] : c \in NestedCompounds}}

InitParse ==
    /\ tree \in Trees
    /\ parsed = [status |-> "none", dispatch |-> "none", value |-> <<>>]
    /\ self = Idle /\ ret = Idle /\ nops = Idle /\ file = Idle /\ loaded = Idle
    /\ pal = Idle /\ pret = Idle
    /\ numbers = Idle /\ stream = Idle /\ decoded = Idle

ParseFile ==
    /\ parsed.status = "none"
    /\ parsed' = parse_file(tree)
    /\ UNCHANGED <<tree, schematicVars, paletteVars, varintVars>>

NextParse == ParseFile

SpecParse == InitParse /\ [][NextParse]_vars

HasTopVersion == "Version" \in DOMAIN tree
HasNestedVersion == "Schematic" \in DOMAIN tree /\ "Version" \in DOMAIN tree.Schematic

\* C8: the version is the top-level Version and, only if that is absent, the
\* nested Schematic.Version; with neither the load fails with "Version not
\* found"; version 3 goes to the v3 parser, 2 to the v2 parser, 1 fails as
\* unsupported, any other value fails as an invalid version; a failed load
\* returns no Schematic.
C8_VersionDispatch ==
    parsed.status # "none" =>
        /\ (~HasTopVersion /\ ~HasNestedVersion) =>
                /\ parsed.status = "ValueError: Invalid schematic file: Version not found."
                /\ parsed.dispatch = "none"
        /\ (HasTopVersion \/ HasNestedVersion) =>
                LET version == IF HasTopVersion THEN tree.Version
                               ELSE tree.Schematic.Version
                IN  /\ version = 3 => parsed.dispatch = "v3"
                    /\ version = 2 => parsed.dispatch = "v2"
                    /\ version = 1 => parsed.status = "NotImplementedError"
                    /\ version \notin {1, 2, 3} =>
                            /\ parsed.status = "ValueError: Invalid schematic version."
                            /\ parsed.dispatch = "none"
        /\ parsed.status # "ok" => parsed.value = <<>>

\* C8's case: a tree whose top-level Version 3 hides a nested Version 2 has
\* been parsed by the v3 parser into a Schematic.
C8_Witness ==
    /\ parsed.status = "ok" /\ parsed.dispatch = "v3" /\ parsed.value # <<>>
    /\ HasTopVersion /\ tree.Version = 3
    /\ HasNestedVersion /\ tree.Schematic.Version = 2

\* The tree without its Biomes compound.
WithoutBiomes(t) ==
    [t EXCEPT !.Schematic = [k \in DOMAIN t.Schematic \ {"Biomes"} |-> t.Schematic[k]]]

\* C10: parsing a version-3 tree with Blocks and Biomes installs Biomes.Palette
\* into the biome palette and leaves the block palette as the same tree without
\* Biomes yields it.
C10_BiomesKeepBlockPalette ==
    (/\ parsed.status = "ok" /\ parsed.dispatch = "v3"
     /\ "Blocks" \in DOMAIN tree.Schematic
     /\ "Biomes" \in DOMAIN tree.Schematic) =>
        /\ parsed.value[1]._block_palette
                = parse_file(WithoutBiomes(tree)).value[1]._block_palette
        /\ parsed.value[1]._biome_palette
                = set_palette(NewPalette, tree.Schematic.Biomes.Palette).palette

====
